---------------------------- MODULE Spec2Model ----------------------------
(***************************************************************************)
(* Adaptive flight search: the vector-db service (query analyzer, search   *)
(* executor, relevance annotator, document store handlers) and the         *)
(* rag-service (search endpoint and numerical filter stage).               *)
(*                                                                         *)
(* Text is modelled at character level: a Python str is a sequence of      *)
(* one-character strings, so that substring tests, case folding, splitting *)
(* and parsing are computed the way the code computes them.                *)
(***************************************************************************)
EXTENDS Integers, Sequences, FiniteSets, TLC

VARIABLES
    collection,      \* vector-db: the documents of the active collection
    collectionMeta,  \* vector-db: the active collection's configuration
    search,          \* vector-db: the last /flights/search request and its outcome
    rag,             \* rag-service: the last /search request and its response
    call,            \* a direct call of one of the pure functions: its arguments
    ret              \* that call's return value

vars == <<collection, collectionMeta, search, rag, call, ret>>
storeVars == <<collection, collectionMeta, search, rag>>

\* Python's None, and the value of a variable nothing has written yet. Every
\* other value of a variable or of a dynamically typed field is a record too.
None == [t |-> "none"]

(***************************************************************************)
(* Bounds of the model.                                                    *)
(***************************************************************************)
\* Longest query, in fragments of the analyzer's vocabulary.
MaxQueryWords == 3
\* Largest total document count determine_result_count is called with.
MaxTotal == 1000
\* Longest list apply_numerical_filters is called with.
MaxFlights == 2
\* Largest distance _calculate_hybrid_score is called with, in tenths.
MaxDistance == 20
\* Most documents the collection holds.
MaxDocs == 2
\* Largest result count _hybrid_search is called with.
MaxCount == 11
MaxWide == 31

(***************************************************************************)
(* Character data: each word used as an input or as a literal of the code, *)
(* spelled out as the sequence of its characters.                          *)
(***************************************************************************)
Chars ==
       "from" :> <<"f", "r", "o", "m">>
    @@ "to" :> <<"t", "o">>
    @@ "between" :> <<"b", "e", "t", "w", "e", "e", "n">>
    @@ "via" :> <<"v", "i", "a">>
    @@ "tomorrow" :> <<"t", "o", "m", "o", "r", "r", "o", "w">>
    @@ "today" :> <<"t", "o", "d", "a", "y">>
    @@ "weekend" :> <<"w", "e", "e", "k", "e", "n", "d">>
    @@ "morning" :> <<"m", "o", "r", "n", "i", "n", "g">>
    @@ "evening" :> <<"e", "v", "e", "n", "i", "n", "g">>
    @@ "date" :> <<"d", "a", "t", "e">>
    @@ "cheap" :> <<"c", "h", "e", "a", "p">>
    @@ "under" :> <<"u", "n", "d", "e", "r">>
    @@ "budget" :> <<"b", "u", "d", "g", "e", "t">>
    @@ "expensive" :> <<"e", "x", "p", "e", "n", "s", "i", "v", "e">>
    @@ "price" :> <<"p", "r", "i", "c", "e">>
    @@ "$" :> <<"$">>
    @@ "airline" :> <<"a", "i", "r", "l", "i", "n", "e">>
    @@ "united" :> <<"u", "n", "i", "t", "e", "d">>
    @@ "american" :> <<"a", "m", "e", "r", "i", "c", "a", "n">>
    @@ "delta" :> <<"d", "e", "l", "t", "a">>
    @@ "southwest" :> <<"s", "o", "u", "t", "h", "w", "e", "s", "t">>
    @@ "business" :> <<"b", "u", "s", "i", "n", "e", "s", "s">>
    @@ "first" :> <<"f", "i", "r", "s", "t">>
    @@ "economy" :> <<"e", "c", "o", "n", "o", "m", "y">>
    @@ "class" :> <<"c", "l", "a", "s", "s">>
    @@ "compare" :> <<"c", "o", "m", "p", "a", "r", "e">>
    @@ "vs" :> <<"v", "s">>
    @@ "versus" :> <<"v", "e", "r", "s", "u", "s">>
    @@ "better" :> <<"b", "e", "t", "t", "e", "r">>
    @@ "best" :> <<"b", "e", "s", "t">>
    @@ "worst" :> <<"w", "o", "r", "s", "t">>
    @@ "flights" :> <<"f", "l", "i", "g", "h", "t", "s">>
    @@ "miami" :> <<"m", "i", "a", "m", "i">>
    @@ "boston" :> <<"b", "o", "s", "t", "o", "n">>
    @@ "Delta" :> <<"D", "e", "l", "t", "a">>
    @@ "VS" :> <<"V", "S">>
    @@ "ua12" :> <<"u", "a", "1", "2">>
    @@ "AA123" :> <<"A", "A", "1", "2", "3">>
    @@ "flight7" :> <<"f", "l", "i", "g", "h", "t", "7">>
    @@ "and" :> <<"a", "n", "d">>
    @@ "or" :> <<"o", "r">>
    @@ "AM" :> <<"A", "M">>
    @@ "PM" :> <<"P", "M">>
    @@ "am" :> <<"a", "m">>
    @@ "pm" :> <<"p", "m">>
    @@ "08:00" :> <<"0", "8", ":", "0", "0">>
    @@ "10:30" :> <<"1", "0", ":", "3", "0">>
    @@ "12:00" :> <<"1", "2", ":", "0", "0">>
    @@ "14:30" :> <<"1", "4", ":", "3", "0">>
    @@ "16:45" :> <<"1", "6", ":", "4", "5">>
    @@ "18:00" :> <<"1", "8", ":", "0", "0">>
    @@ "23:00" :> <<"2", "3", ":", "0", "0">>
    @@ "01:15" :> <<"0", "1", ":", "1", "5">>
    @@ "soon" :> <<"s", "o", "o", "n">>
    @@ "many" :> <<"m", "a", "n", "y">>
    @@ "25:00" :> <<"2", "5", ":", "0", "0">>
    @@ "14:30:00" :> <<"1", "4", ":", "3", "0", ":", "0", "0">>
    @@ "Flight" :> <<"F", "l", "i", "g", "h", "t">>
    @@ "by" :> <<"b", "y">>
    @@ "From:" :> <<"F", "r", "o", "m", ":">>
    @@ "at" :> <<"a", "t">>
    @@ "To:" :> <<"T", "o", ":">>
    @@ "Date:" :> <<"D", "a", "t", "e", ":">>
    @@ "Price:" :> <<"P", "r", "i", "c", "e", ":">>
    @@ "Aircraft:" :> <<"A", "i", "r", "c", "r", "a", "f", "t", ":">>
    @@ "Available" :> <<"A", "v", "a", "i", "l", "a", "b", "l", "e">>
    @@ "seats:" :> <<"s", "e", "a", "t", "s", ":">>
    @@ "match:" :> <<"m", "a", "t", "c", "h", ":">>
    @@ "United" :> <<"U", "n", "i", "t", "e", "d">>
    @@ "Miami" :> <<"M", "i", "a", "m", "i">>
    @@ "Boston" :> <<"B", "o", "s", "t", "o", "n">>
    @@ "UA456" :> <<"U", "A", "4", "5", "6">>
    @@ "2025-01-15" :> <<"2", "0", "2", "5", "-", "0", "1", "-", "1", "5">>
    @@ "A320" :> <<"A", "3", "2", "0">>
    @@ "$300" :> <<"$", "3", "0", "0">>
    @@ " or " :> <<" ", "o", "r", " ">>
    @@ " and " :> <<" ", "a", "n", "d", " ">>
    @@ "and boston and" :> <<"a", "n", "d", " ", "b", "o", "s", "t", "o", "n", " ", "a", "n", "d">>
    @@ "2:30 PM" :> <<"2", ":", "3", "0", " ", "P", "M">>
    @@ "12:30 AM" :> <<"1", "2", ":", "3", "0", " ", "A", "M">>
    @@ "11:15 PM" :> <<"1", "1", ":", "1", "5", " ", "P", "M">>
    @@ "12:00 PM" :> <<"1", "2", ":", "0", "0", " ", "P", "M">>
    @@ "" :> <<>>
    @@ "Airline match: " :> <<"A", "i", "r", "l", "i", "n", "e", " ", "m", "a", "t", "c", "h", ":", " ">>
    @@ "Origin match: " :> <<"O", "r", "i", "g", "i", "n", " ", "m", "a", "t", "c", "h", ":", " ">>
    @@ "Destination match: " :> <<"D", "e", "s", "t", "i", "n", "a", "t", "i", "o", "n", " ", "m", "a", "t", "c", "h", ":", " ">>
    @@ "Budget-friendly: $" :> <<"B", "u", "d", "g", "e", "t", "-", "f", "r", "i", "e", "n", "d", "l", "y", ":", " ", "$">>
    @@ "High semantic similarity" :> <<"H", "i", "g", "h", " ", "s", "e", "m", "a", "n", "t", "i", "c", " ", "s", "i", "m", "i", "l", "a", "r", "i", "t", "y">>
    @@ "Good semantic match" :> <<"G", "o", "o", "d", " ", "s", "e", "m", "a", "n", "t", "i", "c", " ", "m", "a", "t", "c", "h">>

LowerLetters ==
    <<"a","b","c","d","e","f","g","h","i","j","k","l","m",
      "n","o","p","q","r","s","t","u","v","w","x","y","z">>
UpperLetters ==
    <<"A","B","C","D","E","F","G","H","I","J","K","L","M",
      "N","O","P","Q","R","S","T","U","V","W","X","Y","Z">>
Digits == <<"0","1","2","3","4","5","6","7","8","9">>

IsUpper(c) == \E i \in 1..26 : UpperLetters[i] = c
IsLower(c) == \E i \in 1..26 : LowerLetters[i] = c
IsDigit(c) == \E i \in 1..10 : Digits[i] = c
IsSpace(c) == c \in {" ", "\n", "\t"}

LowerChar(c) ==
    IF IsUpper(c) THEN LowerLetters[CHOOSE i \in 1..26 : UpperLetters[i] = c] ELSE c
UpperChar(c) ==
    IF IsLower(c) THEN UpperLetters[CHOOSE i \in 1..26 : LowerLetters[i] = c] ELSE c

\* str.lower(), str.upper()
Lower(s) == [i \in 1..Len(s) |-> LowerChar(s[i])]
Upper(s) == [i \in 1..Len(s) |-> UpperChar(s[i])]

\* s[i:i+len(p)] == p
StartsAt(s, p, i) ==
    /\ i + Len(p) - 1 <= Len(s)
    /\ \A j \in 1..Len(p) : s[i + j - 1] = p[j]

\* p in s
Contains(s, p) == \E i \in 1..(Len(s) - Len(p) + 1) : StartsAt(s, p, i)

\* s.count(p), for a non-empty p: non-overlapping occurrences, left to right
RECURSIVE CountFrom(_, _, _)
CountFrom(s, p, i) ==
    IF i + Len(p) - 1 > Len(s) THEN 0
    ELSE IF StartsAt(s, p, i) THEN 1 + CountFrom(s, p, i + Len(p))
    ELSE CountFrom(s, p, i + 1)
Count(s, p) == CountFrom(s, p, 1)

\* " ".join(words)
RECURSIVE JoinWords(_)
JoinWords(ws) ==
    IF ws = <<>> THEN <<>>
    ELSE IF Len(ws) = 1 THEN ws[1]
    ELSE ws[1] \o <<" ">> \o JoinWords(Tail(ws))

\* The text of a sequence of vocabulary fragments.
Text(names) == JoinWords([i \in 1..Len(names) |-> Chars[names[i]]])

\* set(s.split()): the maximal runs of non-whitespace characters
Words(s) ==
    LET starts == {a \in 1..Len(s) : ~IsSpace(s[a]) /\ (a = 1 \/ IsSpace(s[a - 1]))}
        EndOf(a) == CHOOSE b \in a..Len(s) :
                        /\ b = Len(s) \/ IsSpace(s[b + 1])
                        /\ \A k \in a..b : ~IsSpace(s[k])
    IN  {SubSeq(s, a, EndOf(a)) : a \in starts}

SeqToSet(q) == {q[i] : i \in 1..Len(q)}

\* any(word in s for word in words)
AnyIn(words, s) == \E w \in words : Contains(s, Chars[w])

(***************************************************************************)
(* vector-db: QueryAnalyzer                                                *)
(***************************************************************************)
SIMPLE == "simple"
MODERATE == "moderate"
COMPLEX == "complex"
QueryComplexity == {SIMPLE, MODERATE, COMPLEX}

EXACT == "exact"
SIMILARITY == "similarity"
HYBRID == "hybrid"
SearchStrategy == {EXACT, SIMILARITY, HYBRID}

LocationWords == {"from", "to", "between", "via"}
TimeWords == {"tomorrow", "today", "weekend", "morning", "evening", "date"}
PriceWords == {"cheap", "under", "budget", "expensive", "price", "$"}
AirlineWords == {"airline", "united", "american", "delta", "southwest"}
ClassWords == {"business", "first", "economy", "class"}
ComparisonWords == {"compare", "vs", "versus", "better", "best", "worst"}

\* query_lower.count(' or ') > 0 or query_lower.count(' and ') > 1
MultipleDestinations(query_lower) ==
    Count(query_lower, Chars[" or "]) > 0 \/ Count(query_lower, Chars[" and "]) > 1

\* criteria_count when comparisons weigh 1 like the other criteria
criteria_count_flat(query_lower) ==
      (IF AnyIn(LocationWords, query_lower) THEN 1 ELSE 0)
    + (IF AnyIn(TimeWords, query_lower) THEN 1 ELSE 0)
    + (IF AnyIn(PriceWords, query_lower) THEN 1 ELSE 0)
    + (IF AnyIn(AirlineWords, query_lower) THEN 1 ELSE 0)
    + (IF AnyIn(ClassWords, query_lower) THEN 1 ELSE 0)
    + (IF AnyIn(ComparisonWords, query_lower) THEN 1 ELSE 0)
    + (IF MultipleDestinations(query_lower) THEN 2 ELSE 0)

\* criteria_count as analyze_query_complexity accumulates it
criteria_count(query_lower) ==
      (IF AnyIn(LocationWords, query_lower) THEN 1 ELSE 0)
    + (IF AnyIn(TimeWords, query_lower) THEN 1 ELSE 0)
    + (IF AnyIn(PriceWords, query_lower) THEN 1 ELSE 0)
    + (IF AnyIn(AirlineWords, query_lower) THEN 1 ELSE 0)
    + (IF AnyIn(ClassWords, query_lower) THEN 1 ELSE 0)
    + (IF AnyIn(ComparisonWords, query_lower) THEN 2 ELSE 0)
    + (IF MultipleDestinations(query_lower) THEN 2 ELSE 0)

\* analyze_query_complexity with the tier limits exclusive
analyze_query_complexity_exclusive(query) ==
    LET n == criteria_count(Lower(query))
    IN  IF n < 1 THEN SIMPLE ELSE IF n < 3 THEN MODERATE ELSE COMPLEX

analyze_query_complexity(query) ==
    LET n == criteria_count(Lower(query))
    IN  IF n <= 1 THEN SIMPLE ELSE IF n <= 3 THEN MODERATE ELSE COMPLEX

\* re.search(r'[A-Z]{2}[0-9]+', s)
SearchFlightCode(s) ==
    \E i \in 1..(Len(s) - 2) : IsUpper(s[i]) /\ IsUpper(s[i + 1]) /\ IsDigit(s[i + 2])

\* determine_search_strategy testing the complexity before the flight code
determine_search_strategy_complex_first(query, complexity) ==
    IF complexity = COMPLEX THEN HYBRID
    ELSE IF SearchFlightCode(Upper(query)) THEN EXACT
    ELSE SIMILARITY

determine_search_strategy(query, complexity) ==
    IF SearchFlightCode(Upper(query)) THEN EXACT
    ELSE IF complexity = COMPLEX THEN HYBRID
    ELSE SIMILARITY

(***************************************************************************)
(* Direct calls of the analyzer: a query of up to MaxQueryWords fragments  *)
(* is analysed as search_flights analyses it, and its strategy is also     *)
(* resolved for each complexity tier.                                      *)
(***************************************************************************)
AnalyzerVocabulary ==
    {"from", "morning", "tomorrow", "cheap", "Delta", "first", "compare",
     "or", "and boston and", "ua12", "flight7"}

SeqsUpTo(S, n) == UNION {[1..k -> S] : k \in 0..n}

AnalyzerQueries == SeqsUpTo(AnalyzerVocabulary, MaxQueryWords)

StoreIdle ==
    /\ collection = None
    /\ collectionMeta = None
    /\ search = None
    /\ rag = None

InitAnalyzer ==
    /\ StoreIdle
    /\ call \in [fn : {"analyze"}, query : AnalyzerQueries]
    /\ ret = None

AnalyzeQuery ==
    /\ call.fn = "analyze"
    /\ ret = None
    /\ LET query == Text(call.query)
           complexity == analyze_query_complexity(query)
       IN  ret' = [complexity |-> complexity,
                   strategy |-> determine_search_strategy(query, complexity),
                   strategyFor |-> [c \in QueryComplexity |->
                                       determine_search_strategy(query, c)]]
    /\ UNCHANGED <<call, storeVars>>

NextAnalyzer == AnalyzeQuery

SpecAnalyzer == InitAnalyzer /\ [][NextAnalyzer]_vars

Analyzed == call.fn = "analyze" /\ ret # None

\* A whitespace-separated token that is two letters followed by digits only.
IsCodeToken(w) ==
    /\ Len(w) >= 3
    /\ \A i \in 1..2 : IsUpper(w[i]) \/ IsLower(w[i])
    /\ \A i \in 3..Len(w) : IsDigit(w[i])

HasCodeToken(query) == \E w \in Words(query) : IsCodeToken(w)

\* Two letters immediately followed by a digit, anywhere in the text.
HasCodePattern(query) ==
    \E i \in 1..(Len(query) - 2) :
        /\ IsUpper(query[i]) \/ IsLower(query[i])
        /\ IsUpper(query[i + 1]) \/ IsLower(query[i + 1])
        /\ IsDigit(query[i + 2])

HasComparison(query) == AnyIn(ComparisonWords, Lower(query))

\* The number of signal categories other than comparison the query shows.
OtherCategories(query) ==
    LET q == Lower(query)
    IN    (IF AnyIn(LocationWords, q) THEN 1 ELSE 0)
        + (IF AnyIn(TimeWords, q) THEN 1 ELSE 0)
        + (IF AnyIn(PriceWords, q) THEN 1 ELSE 0)
        + (IF AnyIn(AirlineWords, q) THEN 1 ELSE 0)
        + (IF AnyIn(ClassWords, q) THEN 1 ELSE 0)
        + (IF MultipleDestinations(q) THEN 1 ELSE 0)

\* C1: a query with a token of two letters followed by digits resolves to
\* EXACT for every complexity tier, whatever else the query contains.
C1_CodeTokenIsExact ==
    (Analyzed /\ HasCodeToken(Text(call.query))) =>
        /\ ret.strategy = EXACT
        /\ \A c \in QueryComplexity : ret.strategyFor[c] = EXACT

\* A query with a code token that also scores COMPLEX has been analysed.
C1_Witness ==
    /\ Analyzed
    /\ HasCodeToken(Text(call.query))
    /\ ret.complexity = COMPLEX
    /\ ret.strategy = EXACT

\* C2 as stated: a comparison word with at least two other signal categories
\* resolves to COMPLEX and to HYBRID.
C2_ComparisonIsHybrid ==
    (Analyzed /\ HasComparison(Text(call.query))
              /\ OtherCategories(Text(call.query)) >= 2) =>
        ret.complexity = COMPLEX /\ ret.strategy = HYBRID

\* C2: a comparison word with at least two other signal categories
\* resolves to COMPLEX; the strategy is HYBRID unless the query holds two
\* letters immediately followed by a digit, and then it is EXACT.
C2_ComparisonIsComplex ==
    (Analyzed /\ HasComparison(Text(call.query))
              /\ OtherCategories(Text(call.query)) >= 2) =>
        /\ ret.complexity = COMPLEX
        /\ ret.strategy = IF HasCodePattern(Text(call.query)) THEN EXACT ELSE HYBRID

\* A comparison query with two other categories and no flight code, resolved
\* to HYBRID.
C2_Witness ==
    /\ Analyzed
    /\ HasComparison(Text(call.query))
    /\ OtherCategories(Text(call.query)) >= 2
    /\ ~HasCodePattern(Text(call.query))
    /\ ret.strategy = HYBRID

\* The weight of each signal category the lowercased query shows, summed.
WeightedScore(query) ==
    LET q == Lower(query)
        w(present, weight) == IF present THEN weight ELSE 0
    IN    w(\E x \in LocationWords : Contains(q, Chars[x]), 1)
        + w(\E x \in TimeWords : Contains(q, Chars[x]), 1)
        + w(\E x \in PriceWords : Contains(q, Chars[x]), 1)
        + w(\E x \in AirlineWords : Contains(q, Chars[x]), 1)
        + w(\E x \in ClassWords : Contains(q, Chars[x]), 1)
        + w(\E x \in ComparisonWords : Contains(q, Chars[x]), 2)
        + w(Count(q, Chars[" or "]) >= 1 \/ Count(q, Chars[" and "]) >= 2, 2)

\* C4: the tier is SIMPLE for a weighted score of at most 1, MODERATE for 2
\* or 3 and COMPLEX from 4 on, each category counted once.
C4_TierOfWeightedScore ==
    Analyzed =>
        LET s == WeightedScore(Text(call.query))
        IN  /\ s <= 1 => ret.complexity = SIMPLE
            /\ s \in 2..3 => ret.complexity = MODERATE
            /\ s >= 4 => ret.complexity = COMPLEX

\* A query scoring exactly 3 (a comparison word and one other category, the
\* category's word twice) has been classified MODERATE.
C4_Witness ==
    /\ Analyzed
    /\ WeightedScore(Text(call.query)) = 3
    /\ HasComparison(Text(call.query))
    /\ Len(call.query) = 3
    /\ ret.complexity = MODERATE

Min(a, b) == IF a <= b THEN a ELSE b
Max(a, b) == IF a >= b THEN a ELSE b

\* determine_result_count with min and max exchanged
determine_result_count_swapped(complexity, total_flights) ==
    IF complexity = SIMPLE THEN Max(3, Min(1, total_flights \div 50))
    ELSE IF complexity = MODERATE THEN Max(8, Min(3, total_flights \div 25))
    ELSE Max(15, Min(5, total_flights \div 15))

determine_result_count(complexity, total_flights) ==
    IF complexity = SIMPLE THEN Min(3, Max(1, total_flights \div 50))
    ELSE IF complexity = MODERATE THEN Min(8, Max(3, total_flights \div 25))
    ELSE Min(15, Max(5, total_flights \div 15))

(***************************************************************************)
(* Direct calls of determine_result_count, for every tier and every total  *)
(* document count up to MaxTotal.                                          *)
(***************************************************************************)
InitSize ==
    /\ StoreIdle
    /\ call \in [fn : {"size"}, complexity : QueryComplexity, total : 0..MaxTotal]
    /\ ret = None

ResultCount ==
    /\ call.fn = "size"
    /\ ret = None
    /\ ret' = [n |-> determine_result_count(call.complexity, call.total)]
    /\ UNCHANGED <<call, storeVars>>

NextSize == ResultCount

SpecSize == InitSize /\ [][NextSize]_vars

Sized == call.fn = "size" /\ ret # None

clamp(x, lo, hi) == IF x < lo THEN lo ELSE IF x > hi THEN hi ELSE x

\* C3: the result count is clamp(total // 50, 1, 3) for SIMPLE,
\* clamp(total // 25, 3, 8) for MODERATE and clamp(total // 15, 5, 15) for
\* COMPLEX, which gives 3, 1, 8 and 5 on the four documented inputs and stays
\* within the tier's range.
C3_ResultCountIsClamped ==
    Sized =>
        /\ call.complexity = SIMPLE =>
              /\ ret.n = clamp(call.total \div 50, 1, 3)
              /\ ret.n \in 1..3
              /\ call.total = 500 => ret.n = 3
              /\ call.total = 10 => ret.n = 1
        /\ call.complexity = MODERATE =>
              /\ ret.n = clamp(call.total \div 25, 3, 8)
              /\ ret.n \in 3..8
              /\ call.total = 1000 => ret.n = 8
        /\ call.complexity = COMPLEX =>
              /\ ret.n = clamp(call.total \div 15, 5, 15)
              /\ ret.n \in 5..15
              /\ call.total = 30 => ret.n = 5

\* A count strictly inside the range: 100 documents, MODERATE, sized to 4.
C3_Witness ==
    /\ Sized
    /\ call.complexity = MODERATE
    /\ call.total = 100
    /\ ret.n = 4

(***************************************************************************)
(* Python values of dynamically typed fields (the values of a metadata     *)
(* dict, the optional fields of a request): None, a number, a str.         *)
(***************************************************************************)
Num(n) == [t |-> "num", v |-> n]
Str(name) == [t |-> "str", v |-> Chars[name]]
IsNum(x) == x.t = "num"
IsStr(x) == x.t = "str"

\* bool(x) of such a value
Truthy(x) ==
    IF x.t = "num" THEN x.v # 0
    ELSE IF x.t = "str" THEN x.v # <<>>
    ELSE FALSE

\* dict.get(key): a dict is a function from its keys to values
Get(dict, key) == IF key \in DOMAIN dict THEN dict[key] ELSE None

\* The outcome of a call: a returned value, or a raised exception.
Return(v) == [t |-> "return", v |-> v]
Raise(e) == [t |-> "raise", e |-> e]

(***************************************************************************)
(* rag-service: parse_time_string                                          *)
(***************************************************************************)
\* s.strip()
RECURSIVE LStrip(_)
LStrip(s) == IF s # <<>> /\ IsSpace(Head(s)) THEN LStrip(Tail(s)) ELSE s
RECURSIVE RStrip(_)
RStrip(s) ==
    IF s # <<>> /\ IsSpace(s[Len(s)]) THEN RStrip(SubSeq(s, 1, Len(s) - 1)) ELSE s
Strip(s) == RStrip(LStrip(s))

\* s.replace(p, ''), for a non-empty p
RECURSIVE RemoveFrom(_, _, _)
RemoveFrom(s, p, i) ==
    IF i > Len(s) THEN <<>>
    ELSE IF StartsAt(s, p, i) THEN RemoveFrom(s, p, i + Len(p))
    ELSE <<s[i]>> \o RemoveFrom(s, p, i + 1)
Remove(s, p) == RemoveFrom(s, p, 1)

\* s.split(sep), for a one-character sep: the parts between the separators
RECURSIVE SplitOnFrom(_, _, _, _)
SplitOnFrom(s, sep, i, cur) ==
    IF i > Len(s) THEN <<cur>>
    ELSE IF s[i] = sep THEN <<cur>> \o SplitOnFrom(s, sep, i + 1, <<>>)
    ELSE SplitOnFrom(s, sep, i + 1, Append(cur, s[i]))
SplitOn(s, sep) == SplitOnFrom(s, sep, 1, <<>>)

DigitValue(c) == (CHOOSE i \in 1..10 : Digits[i] = c) - 1

RECURSIVE DecimalValue(_)
DecimalValue(ds) ==
    IF ds = <<>> THEN 0
    ELSE 10 * DecimalValue(SubSeq(ds, 1, Len(ds) - 1)) + DigitValue(ds[Len(ds)])

\* int(s): surrounding whitespace, an optional sign, decimal digits; anything
\* else raises ValueError
ParseDigits(ds, negative) ==
    IF ds # <<>> /\ \A i \in 1..Len(ds) : IsDigit(ds[i])
    THEN Return(IF negative THEN 0 - DecimalValue(ds) ELSE DecimalValue(ds))
    ELSE Raise("ValueError")
ParseSigned(body) ==
    IF body # <<>> /\ body[1] \in {"+", "-"}
    THEN ParseDigits(Tail(body), body[1] = "-")
    ELSE ParseDigits(body, FALSE)
ParseInt(s) == ParseSigned(Strip(s))

\* (hour, minute), or (None, None)
HourMinute(h, m) == [t |-> "time", hour |-> h, minute |-> m]

\* lines 150-159: int() of the two parts (a ValueError gives (None, None)),
\* then the 12-hour conversion
To24Hour(hour, minute, is_pm, is_am) ==
    IF hour.t = "raise" \/ minute.t = "raise" THEN Return(None)
    ELSE Return(HourMinute(IF is_pm /\ hour.v # 12 THEN hour.v + 12
                           ELSE IF is_am /\ hour.v = 12 THEN 0
                           ELSE hour.v,
                           minute.v))

\* lines 148-161
ParseParts(parts, is_pm, is_am) ==
    IF Len(parts) >= 2
    THEN To24Hour(ParseInt(parts[1]), ParseInt(parts[2]), is_pm, is_am)
    ELSE Return(None)

\* lines 143-145, on the stripped text
ParseStripped(stripped) ==
    ParseParts(SplitOn(Strip(Remove(Remove(Remove(Remove(stripped,
                   Chars["AM"]), Chars["PM"]), Chars["am"]), Chars["pm"])), ":"),
               Contains(Upper(stripped), Chars["PM"]),
               Contains(Upper(stripped), Chars["AM"]))

\* A value without .strip() raises AttributeError, which parse_time_string
\* does not catch.
parse_time_string(time_str) ==
    IF ~IsStr(time_str) THEN Raise("AttributeError")
    ELSE ParseStripped(Strip(time_str.v))

Minutes(hm) == hm.hour * 60 + hm.minute

(***************************************************************************)
(* rag-service: passes_time_filter, calculate_flight_duration              *)
(***************************************************************************)
\* the window with both bounds exclusive
WithinWindow_exclusive(flight_minutes, after, before) ==
    /\ ~(after # None /\ flight_minutes <= Minutes(after))
    /\ ~(before # None /\ flight_minutes >= Minutes(before))

\* lines 113-128, for the parsed bounds (None: no bound, or not parsable)
WithinWindow(flight_minutes, after, before) ==
    /\ ~(after # None /\ flight_minutes < Minutes(after))
    /\ ~(before # None /\ flight_minutes > Minutes(before))

\* after_time and before_time are None or str (NumericalFilters), so parsing
\* them does not raise.
ParsedBound(bound) == IF Truthy(bound) THEN parse_time_string(bound).v ELSE None

\* the flight time's parse decided the strict way: unparsable fails
PassesParsedStrict(flight, after_time, before_time) ==
    IF flight.t = "raise" THEN FALSE
    ELSE IF flight.v = None THEN FALSE
    ELSE WithinWindow(Minutes(flight.v), ParsedBound(after_time),
                      ParsedBound(before_time))

\* lines 107-132: an unparsable flight time passes, and so does one whose
\* parsing raised (`except Exception`)
PassesParsed(flight, after_time, before_time) ==
    IF flight.t = "raise" THEN TRUE
    ELSE IF flight.v = None THEN TRUE
    ELSE WithinWindow(Minutes(flight.v), ParsedBound(after_time),
                      ParsedBound(before_time))

\* passes_time_filter rejecting a flight time it cannot parse
passes_time_filter_strict(flight_time, after_time, before_time) ==
    PassesParsedStrict(parse_time_string(flight_time), after_time, before_time)

passes_time_filter(flight_time, after_time, before_time) ==
    PassesParsed(parse_time_string(flight_time), after_time, before_time)

\* lines 175-186: the duration in minutes (the code returns minutes / 60.0
\* hours), or None
Duration(dep, arr) ==
    IF dep.t = "raise" \/ arr.t = "raise" THEN None
    ELSE IF dep.v = None \/ arr.v = None THEN None
    ELSE IF Minutes(arr.v) < Minutes(dep.v)
    THEN Num(Minutes(arr.v) + 24 * 60 - Minutes(dep.v))
    ELSE Num(Minutes(arr.v) - Minutes(dep.v))

calculate_flight_duration(departure_time, arrival_time) ==
    Duration(parse_time_string(departure_time), parse_time_string(arrival_time))

(***************************************************************************)
(* rag-service: apply_numerical_filters.  Each block of the loop body      *)
(* lets the flight pass on to the next block, skips it (continue), or      *)
(* raises: comparing a str with a number is a TypeError.                   *)
(***************************************************************************)
\* `value is None or value > limit` (above) / `value < limit` (not above)
Compare(value, limit, above) ==
    IF value = None THEN "skip"
    ELSE IF ~IsNum(value) THEN "raise"
    ELSE IF above /\ value.v > limit.v THEN "skip"
    ELSE IF ~above /\ value.v < limit.v THEN "skip"
    ELSE "pass"

\* lines 60-64 and 66-69
MaxPriceCheck(flight, filters) ==
    IF filters.max_price # None
    THEN Compare(Get(flight, "price"), filters.max_price, TRUE)
    ELSE "pass"
MinPriceCheck(flight, filters) ==
    IF filters.min_price # None
    THEN Compare(Get(flight, "price"), filters.min_price, FALSE)
    ELSE "pass"

\* The first of two blocks that does not pass decides.
FirstOf(first, second) == IF first # "pass" THEN first ELSE second

\* price_filtering testing max_price only
price_filtering_max_only(flight, filters) == MaxPriceCheck(flight, filters)

price_filtering(flight, filters) ==
    FirstOf(MaxPriceCheck(flight, filters), MinPriceCheck(flight, filters))

seats_filtering(flight, filters) ==
    IF filters.min_available_seats # None
    THEN Compare(Get(flight, "available_seats"), filters.min_available_seats, FALSE)
    ELSE "pass"

\* lines 78-81 (departure) and 83-86 (arrival)
WindowCheck(time, after_time, before_time) ==
    IF /\ Truthy(after_time) \/ Truthy(before_time)
       /\ Truthy(time)
       /\ ~passes_time_filter(time, after_time, before_time)
    THEN "skip"
    ELSE "pass"

time_filtering(flight, filters) ==
    FirstOf(WindowCheck(Get(flight, "departure_time"), filters.departure_after,
                        filters.departure_before),
            WindowCheck(Get(flight, "arrival_time"), filters.arrival_after,
                        filters.arrival_before))

\* duration > max_duration_hours, the duration held in minutes
TooLong(duration, max_duration_hours) ==
    IF duration # None /\ duration.v > 60 * max_duration_hours.v
    THEN "skip"
    ELSE "pass"

duration_filtering(flight, filters) ==
    IF filters.max_duration_hours # None
    THEN TooLong(calculate_flight_duration(Get(flight, "departure_time"),
                                           Get(flight, "arrival_time")),
                 filters.max_duration_hours)
    ELSE "pass"

\* One iteration of the loop: "keep" (appended), "skip" or "raise".
FlightOutcome(flight, filters) ==
    IF DOMAIN flight = {} THEN "skip"
    ELSE FirstOf(price_filtering(flight, filters),
         FirstOf(seats_filtering(flight, filters),
         FirstOf(time_filtering(flight, filters),
         FirstOf(duration_filtering(flight, filters), "keep"))))

RECURSIVE FilterLoop(_, _, _)
\* lines 55-95 for the first flight, given its outcome
FilterStep(outcome, flights, filters, filtered_flights) ==
    IF outcome = "raise" THEN Raise("TypeError")
    ELSE FilterLoop(Tail(flights), filters,
                    IF outcome = "keep" THEN Append(filtered_flights, Head(flights))
                    ELSE filtered_flights)
FilterLoop(flights, filters, filtered_flights) ==
    IF flights = <<>> THEN Return(filtered_flights)
    ELSE FilterStep(FlightOutcome(Head(flights), filters), flights, filters,
                    filtered_flights)

apply_numerical_filters(flights, filters) == FilterLoop(flights, filters, <<>>)

(***************************************************************************)
(* Direct calls of apply_numerical_filters, on lists of up to MaxFlights   *)
(* metadata dicts.                                                         *)
(***************************************************************************)
Flight(price, seats, dep, arr) ==
    [price |-> price, available_seats |-> seats,
     departure_time |-> dep, arrival_time |-> arr]

\* A dict without a key: .get() gives None for it, as for a null value.
EmptyDict == <<>>

FilterFlights ==
    { EmptyDict,
      Flight(Num(300), Num(5), Str("08:00"), Str("10:30")),
      Flight(Num(600), Num(5), Str("2:30 PM"), Str("16:45")),
      Flight(Num(100), Num(0), Str("14:30"), Str("soon")),
      Flight(None, Num(5), Str("soon"), Str("16:45")),
      Flight(Str("cheap"), Num(5), Str("08:00"), Str("10:30")),
      Flight(Num(300), None, Str("soon"), Str("10:30")),
      Flight(Num(300), Str("many"), None, Str("10:30")),
      Flight(Num(300), Num(5), Str("soon"), Str("soon")),
      Flight(Num(300), Num(5), Str("23:00"), Str("01:15")) }

FilterSets ==
    [max_price : {None, Num(500)},
     min_price : {None, Num(200)},
     min_available_seats : {None, Num(1)},
     max_duration_hours : {None, Num(2)},
     departure_after : {None, Str("12:00")},
     departure_before : {None},
     arrival_after : {None},
     arrival_before : {None, Str("18:00")}]

InitFilter ==
    /\ StoreIdle
    /\ call \in [fn : {"filter"},
                 flights : SeqsUpTo(FilterFlights, MaxFlights),
                 filters : FilterSets]
    /\ ret = None

\* The caller's list after a call: the loop reads the list and its dicts
\* (.get) and appends to a new list only, so the list is as it was.
flights_emptied_in_place(flights, filters) ==
    IF apply_numerical_filters(flights, filters).t = "return"
    THEN apply_numerical_filters(flights, filters).v
    ELSE flights
flights_after_call(flights, filters) == flights

ApplyFilters ==
    /\ call.fn = "filter"
    /\ ret = None
    /\ ret' = apply_numerical_filters(call.flights, call.filters)
    /\ call' = [call EXCEPT !.flights = flights_after_call(call.flights,
                                                          call.filters)]
    /\ UNCHANGED storeVars

NextFilter == ApplyFilters

SpecFilter == InitFilter /\ [][NextFilter]_vars

Filtered == call.fn = "filter" /\ ret # None

InSeq(x, q) == \E i \in 1..Len(q) : q[i] = x

\* The input records of the call, the empty dict aside.
InputFlights == {call.flights[i] : i \in 1..Len(call.flights)} \ {EmptyDict}

\* C8: every record apply_numerical_filters returns is a record of the input
\* that passes each specified price and seat constraint: none has
\* price > max_price, price < min_price or available_seats <
\* min_available_seats; a record with price 600 is not returned when
\* max_price is 500.
C8_ReturnedPassAllFilters ==
    (Filtered /\ ret.t = "return") =>
        /\ \A i \in 1..Len(ret.v) :
              LET f == ret.v[i]
                  F == call.filters
              IN  /\ InSeq(f, call.flights)
                  /\ F.max_price # None =>
                        IsNum(f.price) /\ ~(f.price.v > F.max_price.v)
                  /\ F.min_price # None =>
                        IsNum(f.price) /\ ~(f.price.v < F.min_price.v)
                  /\ F.min_available_seats # None =>
                        /\ IsNum(f.available_seats)
                        /\ ~(f.available_seats.v < F.min_available_seats.v)
        /\ call.filters.max_price = Num(500) =>
              \A f \in InputFlights : f.price = Num(600) => ~InSeq(f, ret.v)

\* Two records under a price ceiling, a price floor and a seat minimum: the
\* one priced 600 is dropped and the other is returned.
C8_Witness ==
    /\ Filtered
    /\ ret.t = "return"
    /\ call.filters.max_price = Num(500)
    /\ call.filters.min_price # None
    /\ call.filters.min_available_seats # None
    /\ Len(call.flights) = 2
    /\ \E f \in InputFlights : f.price = Num(600)
    /\ Len(ret.v) = 1

\* A time value parse_time_string gives no hour and minute for.
CannotParse(time) ==
    \/ time = None
    \/ parse_time_string(time).t = "raise"
    \/ parse_time_string(time).v = None

\* Whether the stage keeps a record called on its own under these filters.
KeptAlone(f, filters) ==
    LET r == apply_numerical_filters(<<f>>, filters)
    IN  r.t = "return" /\ r.v = <<f>>

WithoutDepartureWindow(filters) ==
    [filters EXCEPT !.departure_after = None, !.departure_before = None]
WithoutArrivalWindow(filters) ==
    [filters EXCEPT !.arrival_after = None, !.arrival_before = None]

\* C9: a record whose departure_time (arrival_time) cannot be parsed is
\* returned exactly when it would be returned with the departure (arrival)
\* window filters left out: the window filter never excludes it.
C9_TimeFiltersFailOpen ==
    (Filtered /\ ret.t = "return") =>
        \A f \in InputFlights :
            /\ CannotParse(f.departure_time) =>
                  (InSeq(f, ret.v) <=>
                      KeptAlone(f, WithoutDepartureWindow(call.filters)))
            /\ CannotParse(f.arrival_time) =>
                  (InSeq(f, ret.v) <=>
                      KeptAlone(f, WithoutArrivalWindow(call.filters)))

\* A record with an unparsable departure time is returned under a
\* departure_after filter that drops the other record of the list.
C9_Witness ==
    /\ Filtered
    /\ ret.t = "return"
    /\ call.filters.departure_after # None
    /\ Len(ret.v) = 1
    /\ IsStr(ret.v[1].departure_time)
    /\ CannotParse(ret.v[1].departure_time)
    /\ \E g \in InputFlights : ~CannotParse(g.departure_time) /\ ~InSeq(g, ret.v)

\* A field that is missing or is not a number.
NotANumber(value) == value = None \/ ~IsNum(value)

\* C10: with a price or seat filter specified, the stage completes and
\* returns a list that holds no record whose price (available_seats) is
\* missing or is not a number.
C10_PriceSeatFailClosed ==
    Filtered =>
        LET F == call.filters
        IN  /\ ret.t = "return"
            /\ \A f \in InputFlights :
                  /\ (F.max_price # None \/ F.min_price # None)
                        /\ NotANumber(f.price) => ~InSeq(f, ret.v)
                  /\ F.min_available_seats # None
                        /\ NotANumber(f.available_seats) => ~InSeq(f, ret.v)

(***************************************************************************)
(* apply_numerical_filters called twice on the same list object with the   *)
(* same filters; `given` keeps the list as the caller built it.            *)
(***************************************************************************)
InitRepeat ==
    /\ StoreIdle
    /\ \E flights \in SeqsUpTo(FilterFlights, MaxFlights), filters \in FilterSets :
          call = [fn |-> "filter", flights |-> flights, filters |-> filters,
                  given |-> flights]
    /\ ret = None

ApplyFiltersAgain ==
    /\ call.fn = "filter"
    /\ ret # None
    /\ ret.t \in {"return", "raise"}
    /\ ret' = [t |-> "again", first |-> ret,
               second |-> apply_numerical_filters(call.flights, call.filters)]
    /\ call' = [call EXCEPT !.flights = flights_after_call(call.flights,
                                                          call.filters)]
    /\ UNCHANGED storeVars

NextRepeat ==
    \/ ApplyFilters
    \/ ApplyFiltersAgain

SpecRepeat == InitRepeat /\ [][NextRepeat]_vars

Rat(n, d) == [num |-> n, den |-> d]
RatLess(a, b) == a.num * b.den < b.num * a.den
RatEq(a, b) == a.num * b.den = b.num * a.den
RatLeq(a, b) == ~RatLess(b, a)
RatMin(a, b) == IF RatLess(b, a) THEN b ELSE a
\* 1.0 - distance
OneMinus(distance) == Rat(10 - distance, 10)

\* str(n) for an int n
RECURSIVE NatToChars(_)
NatToChars(n) ==
    IF n < 10 THEN <<Digits[n + 1]>>
    ELSE NatToChars(n \div 10) \o <<Digits[(n % 10) + 1]>>
IntToChars(n) == IF n < 0 THEN <<"-">> \o NatToChars(0 - n) ELSE NatToChars(n)
\* str(x) for a float x with an integer value: "300.0"
FloatToChars(n) == IntToChars(n) \o <<".", "0">>

(***************************************************************************)
(* vector-db: SearchResult, _calculate_hybrid_score,                       *)
(* _analyze_match_relevance                                                *)
(***************************************************************************)
SearchResult(id, document, metadata, distance, similarity_score, match_type, relevance_factors) ==
    [id |-> id, document |-> document, metadata |-> metadata,
     distance |-> distance, similarity_score |-> similarity_score,
     match_type |-> match_type, relevance_factors |-> relevance_factors]

\* len(query_words.intersection(doc_words)) / max(len(query_words), 1)
keyword_overlap(query, document) ==
    LET query_words == Words((Lower(query)))
        doc_words == Words((Lower(document)))
    IN  Rat(Cardinality(query_words \cap doc_words),
            Max(Cardinality(query_words), 1))

\* 0.1 when the record's airline, lowercased, occurs in the lowercased query
metadata_bonus(query, metadata) ==
    IF "airline" \in DOMAIN metadata
       /\ Contains(Lower(query), Lower(metadata["airline"].v))
    THEN Rat(1, 10)
    ELSE Rat(0, 10)

\* the three parts added without their weights and returned without the cap
_calculate_hybrid_score_unweighted(query, result) ==
    LET base == OneMinus(result.distance)
        overlap == keyword_overlap(query, result.document)
        bonus == metadata_bonus(query, result.metadata)
    IN  Rat(10 * base.num * overlap.den + 100 * overlap.num
                + 10 * bonus.num * overlap.den,
            100 * overlap.den)

\* min(base_similarity * 0.7 + keyword_overlap * 0.2 + metadata_bonus, 1.0)
_calculate_hybrid_score(query, result) ==
    LET base == OneMinus(result.distance)
        overlap == keyword_overlap(query, result.document)
        bonus == metadata_bonus(query, result.metadata)
        hybrid_score == Rat(7 * base.num * overlap.den + 20 * overlap.num
                                + 10 * bonus.num * overlap.den,
                            100 * overlap.den)
    IN  RatMin(hybrid_score, Rat(1, 1))

\* metadata.get(key, ''), a str
GetStr(metadata, key) == IF key \in DOMAIN metadata THEN metadata[key].v ELSE <<>>

BudgetWords == {"cheap", "budget", "under"}

\* _analyze_match_relevance calling a result multi-factor from two factors on
_analyze_match_relevance_two_factors(query, result) ==
    LET query_lower == Lower(query)
        airline == IF Contains(query_lower, Lower(GetStr(result.metadata, "airline")))
                   THEN <<Chars["Airline match: "] \o GetStr(result.metadata, "airline")>>
                   ELSE <<>>
        semantic == IF RatLess(Rat(8, 10), result.similarity_score)
                    THEN <<Chars["High semantic similarity"]>>
                    ELSE <<>>
        factors == semantic \o airline
    IN  [match_type |-> IF Len(factors) >= 2 THEN "multi-factor" ELSE "semantic",
         relevance_factors |-> factors]

_analyze_match_relevance(query, result) ==
    LET query_lower == Lower(query)
        airline == IF Contains(query_lower, Lower(GetStr(result.metadata, "airline")))
                   THEN <<Chars["Airline match: "] \o GetStr(result.metadata, "airline")>>
                   ELSE <<>>
        origin == IF Contains(query_lower,
                              Lower(GetStr(result.metadata, "departure_city")))
                  THEN <<Chars["Origin match: "]
                            \o GetStr(result.metadata, "departure_city")>>
                  ELSE <<>>
        destination == IF Contains(query_lower,
                                   Lower(GetStr(result.metadata, "arrival_city")))
                       THEN <<Chars["Destination match: "]
                                 \o GetStr(result.metadata, "arrival_city")>>
                       ELSE <<>>
        price == IF "price" \in DOMAIN result.metadata
                 THEN result.metadata["price"].v ELSE 0
        budget == IF AnyIn(BudgetWords, query_lower) /\ price < 500
                  THEN <<Chars["Budget-friendly: $"]
                            \o (IF "price" \in DOMAIN result.metadata
                                THEN FloatToChars(price) ELSE IntToChars(0))>>
                  ELSE <<>>
        semantic == IF RatLess(Rat(8, 10), result.similarity_score)
                    THEN <<Chars["High semantic similarity"]>>
                    ELSE IF RatLess(Rat(6, 10), result.similarity_score)
                    THEN <<Chars["Good semantic match"]>>
                    ELSE <<>>
        factors == airline \o origin \o destination \o budget \o semantic
        match_type == IF Len(factors) > 2 THEN "multi-factor"
                      ELSE IF \E i \in 1..Len(factors) :
                                  Contains(factors[i], Chars["match:"])
                      THEN "exact"
                      ELSE "semantic"
    IN  [match_type |-> match_type, relevance_factors |-> factors]

(***************************************************************************)
(* Direct calls of _calculate_hybrid_score: a query of up to MaxQueryWords *)
(* words, a document text, a metadata dict with or without an airline, and *)
(* a distance of 0 to MaxDistance tenths.                                  *)
(***************************************************************************)
HybridVocabulary == {"cheap", "Delta", "miami"}

HybridDocuments ==
    {Text(<<>>), Text(<<"cheap", "flights", "miami">>),
     Text(<<"Flight", "AA123", "by", "Delta">>)}

HybridMetadata == {<<>>, [airline |-> Str("Delta")], [airline |-> Str("")]}

InitHybrid ==
    /\ StoreIdle
    /\ call \in [fn : {"hybrid_score"},
                 query : SeqsUpTo(HybridVocabulary, MaxQueryWords),
                 document : HybridDocuments,
                 metadata : HybridMetadata,
                 distance : 0..MaxDistance]
    /\ ret = None

HybridScore ==
    /\ call.fn = "hybrid_score"
    /\ ret = None
    /\ ret' = [score |-> _calculate_hybrid_score(Text(call.query),
                   SearchResult("id", call.document, call.metadata, call.distance,
                                OneMinus(call.distance), HYBRID, <<>>))]
    /\ UNCHANGED <<call, storeVars>>

NextHybrid == HybridScore

SpecHybrid == InitHybrid /\ [][NextHybrid]_vars

Scored == call.fn = "hybrid_score" /\ ret # None

\* C7: for a distance >= 0, any query and any document text, the hybrid
\* score is at most 1.0.
C7_HybridScoreAtMostOne ==
    (Scored /\ call.distance >= 0) => ret.score.num <= ret.score.den

\* The score reaches 1.0: distance 0, every query word in the document, and
\* the airline named in the query.
C7_Witness ==
    /\ Scored
    /\ call.distance = 0
    /\ call.query # <<>>
    /\ call.metadata = [airline |-> Str("Delta")]
    /\ ret.score.num = ret.score.den

(***************************************************************************)
(* vector-db: FlightDocument, the collection, and the Document Store       *)
(***************************************************************************)
\* flight.dict(): pydantic has coerced every field to str, float or int.
FlightDocument(id, flight_number, airline, departure_city, arrival_city, departure_time, arrival_time, date, price, aircraft_type, available_seats) ==
    [id |-> id, flight_number |-> Str(flight_number), airline |-> Str(airline),
     departure_city |-> Str(departure_city), arrival_city |-> Str(arrival_city),
     departure_time |-> Str(departure_time), arrival_time |-> Str(arrival_time),
     date |-> Str(date), price |-> Num(price), aircraft_type |-> Str(aircraft_type),
     available_seats |-> Num(available_seats)]

\* The f-string of add_flight; its line breaks and indentation are whitespace.
document_text(flight) ==
    LET nl == <<"\n", " ", " ", " ", " ", " ", " ", " ", " ">>
        sp == <<" ">>
    IN  Chars["Flight"] \o sp \o flight.flight_number.v \o sp \o Chars["by"] \o sp
            \o flight.airline.v
        \o nl \o Chars["From:"] \o sp \o flight.departure_city.v \o sp \o Chars["at"]
            \o sp \o flight.departure_time.v
        \o nl \o Chars["To:"] \o sp \o flight.arrival_city.v \o sp \o Chars["at"]
            \o sp \o flight.arrival_time.v
        \o nl \o Chars["Date:"] \o sp \o flight.date.v
        \o nl \o Chars["Price:"] \o sp \o <<"$">> \o FloatToChars(flight.price.v)
        \o nl \o Chars["Aircraft:"] \o sp \o flight.aircraft_type.v
        \o nl \o Chars["Available"] \o sp \o Chars["seats:"] \o sp
            \o IntToChars(flight.available_seats.v)

\* The flights a client posts to /flights/add.  FlightDocument validates the
\* types only: an empty airline, a negative price or a reused id is accepted.
FlightPool ==
    { FlightDocument("F1", "AA123", "Delta", "Miami", "Boston", "08:00", "10:30",
                     "2025-01-15", 300, "A320", 5),
      FlightDocument("F2", "UA456", "United", "Boston", "Miami", "2:30 PM", "16:45",
                     "2025-01-15", 600, "A320", 0),
      FlightDocument("F3", "AA123", "", "Miami", "", "23:00", "01:15",
                     "2025-01-15", 0 - 50, "A320", 0 - 1),
      FlightDocument("F1", "UA456", "United", "Boston", "Miami", "14:30", "soon",
                     "2025-01-15", 100, "A320", 5) }

\* The metadata the collection is created with at start-up, and by reset.
StartupMetadata ==
    [description |-> "Flight information for retrieval", space |-> "cosine",
     M |-> 16, ef_construction |-> 200, ef |-> 100]
ResetMetadata == [description |-> "Flight information for retrieval"]

\* The distance function of a collection: "hnsw:space", l2 when not given.
Space(metadata) == IF "space" \in DOMAIN metadata THEN metadata.space ELSE "l2"

\* The distances, in tenths, a query can give a document: within [0, 2] for
\* cosine, unbounded for l2.
Distances(metadata) ==
    IF Space(metadata) = "cosine" THEN {1, 3, 15} ELSE {1, 3, 15, 25}

\* collection.count()
StoreCount(coll) == Cardinality(coll)

\* The embedding is opaque: a query may rank the documents in any order, with
\* any distances that do not decrease along the ranking.
Rankings(coll, metadata) ==
    {r \in [1..Cardinality(coll) -> [doc : coll, distance : Distances(metadata)]] :
        /\ \A i, j \in 1..Cardinality(coll) : i # j => r[i].doc # r[j].doc
        /\ \A i \in 1..(Cardinality(coll) - 1) : r[i].distance <= r[i + 1].distance}

\* collection.query(query_texts=[query], n_results=k): the k nearest documents,
\* all of them when there are fewer; a k below 1 is refused.
StoreQuery(ranking, k) ==
    IF k <= 0 THEN Raise("n_results")
    ELSE Return(SubSeq(ranking, 1, Min(k, Len(ranking))))

\* collection.add(documents, metadatas, ids) of one document: an id the
\* collection already holds is not added again.
StoreAdd(coll, id, document, metadata) ==
    IF \E d \in coll : d.id = id THEN coll
    ELSE coll \cup {[id |-> id, document |-> document, metadata |-> metadata]}

(***************************************************************************)
(* vector-db: the three execution paths.  `ranking` is the order and the   *)
(* distances the store gives the collection's documents for this query;    *)
(* `fault` names the store call that fails in this request, if any.        *)
(***************************************************************************)
Take(q, n) == SubSeq(q, 1, Min(n, Len(q)))

ToResults(candidates, match_type) ==
    [i \in 1..Len(candidates) |->
        SearchResult(candidates[i].doc.id, candidates[i].doc.document,
                     candidates[i].doc.metadata, candidates[i].distance,
                     OneMinus(candidates[i].distance), match_type, <<>>)]

Query(ranking, k, fault) ==
    IF fault = "query" THEN Raise("store unavailable") ELSE StoreQuery(ranking, k)

\* The number of candidates each path asks the store for.
ExactCandidates_uncapped(n_results) == n_results * 2
ExactCandidates(n_results) == Min(n_results * 2, 20)
HybridCandidates(n_results) == Min(n_results * 3, 30)

_exact_search(query, n_results, ranking, fault) ==
    LET results == Query(ranking, ExactCandidates(n_results), fault)
    IN  IF results.t = "raise" THEN results
        ELSE Return(Take(ToResults(results.v, "exact"), n_results))

\* _similarity_search without the distance threshold
_similarity_search_unfiltered(query, n_results, max_distance, ranking, fault) ==
    IF Query(ranking, n_results, fault).t = "raise"
    THEN Query(ranking, n_results, fault)
    ELSE Return(ToResults(Query(ranking, n_results, fault).v, "semantic"))

_similarity_search(query, n_results, max_distance, ranking, fault) ==
    LET results == Query(ranking, n_results, fault)
    IN  IF results.t = "raise" THEN results
        ELSE Return(SelectSeq(ToResults(results.v, "semantic"),
                        LAMBDA r : ~(max_distance # None
                                       /\ r.distance > max_distance.v)))

\* list.sort(key=similarity_score, reverse=True): stable, so results with
\* equal scores keep the order they had.
RECURSIVE InsertByScore(_, _)
InsertByScore(sorted, r) ==
    IF sorted = <<>> THEN <<r>>
    ELSE IF RatLess(Head(sorted).similarity_score, r.similarity_score)
         THEN <<r>> \o sorted
         ELSE <<Head(sorted)>> \o InsertByScore(Tail(sorted), r)
RECURSIVE SortByScore(_)
SortByScore(results) ==
    IF results = <<>> THEN <<>>
    ELSE InsertByScore(SortByScore(SubSeq(results, 1, Len(results) - 1)),
                       results[Len(results)])

\* _hybrid_search returning the nearest candidates, in the store's order
_hybrid_search_by_distance(query, n_results, ranking, fault) ==
    LET results == Query(ranking, HybridCandidates(n_results), fault)
    IN  IF results.t = "raise" THEN results
        ELSE LET search_results == ToResults(results.v, "hybrid")
             IN  Return(Take([i \in 1..Len(search_results) |->
                                [search_results[i] EXCEPT !.similarity_score =
                                    _calculate_hybrid_score(query, search_results[i])]],
                             n_results))

\* _hybrid_search reading its best candidate before looking at how many
\* the store gave
_hybrid_search_needs_candidates(query, n_results, ranking, fault) ==
    IF fault = "query" THEN Raise("store unavailable")
    ELSE IF ranking = <<>> \/ n_results <= 0 THEN Raise("IndexError")
    ELSE Return(Take(ToResults(StoreQuery(ranking, HybridCandidates(n_results)).v,
                               "hybrid"), n_results))

_hybrid_search(query, n_results, ranking, fault) ==
    LET results == Query(ranking, HybridCandidates(n_results), fault)
    IN  IF results.t = "raise" THEN results
        ELSE LET search_results == ToResults(results.v, "hybrid")
                 scored_results ==
                     [i \in 1..Len(search_results) |->
                         [search_results[i] EXCEPT !.similarity_score =
                             _calculate_hybrid_score(query, search_results[i])]]
             IN  Return(Take(SortByScore(scored_results), n_results))

(***************************************************************************)
(* vector-db: POST /flights/search                                         *)
(***************************************************************************)
\* SearchQuery: query, n_results, strategy and max_distance (None when the
\* caller leaves one out).
SearchQuery(query, n_results, strategy, max_distance) ==
    [query |-> query, n_results |-> n_results, strategy |-> strategy,
     max_distance |-> max_distance]

Enum(v) == [t |-> "enum", v |-> v]

Ok(results) == [status |-> 200, results |-> results]
HTTPException(detail) == [status |-> 500, detail |-> detail]

\* n_results sized from the complexity and the count whatever the request says
ChooseCount_always_dynamic(request, complexity, total_flights) ==
    determine_result_count(complexity, total_flights)

\* lines 198-201
ChooseCount(request, complexity, total_flights) ==
    IF request.n_results = None
    THEN determine_result_count(complexity, total_flights)
    ELSE request.n_results.v

\* The path run for a strategy (lines 211-219), and what it gave.
RunPath(strategy, request, query, n_results, ranking, fault) ==
    IF strategy = EXACT
    THEN [path |-> "_exact_search",
          requested |-> ExactCandidates(n_results),
          out |-> _exact_search(query, n_results, ranking, fault)]
    ELSE IF strategy = HYBRID
    THEN [path |-> "_hybrid_search",
          requested |-> HybridCandidates(n_results),
          out |-> _hybrid_search(query, n_results, ranking, fault)]
    ELSE [path |-> "_similarity_search",
          requested |-> n_results,
          out |-> _similarity_search(query, n_results, request.max_distance,
                                     ranking, fault)]

\* the enhancement keeping the similarity_score its path gave the result
Enhance_keeps_path_score(query, search_results) ==
    [i \in 1..Len(search_results) |->
        [search_results[i] EXCEPT
            !.match_type = _analyze_match_relevance(query, search_results[i]).match_type,
            !.relevance_factors =
                _analyze_match_relevance(query, search_results[i]).relevance_factors]]

\* lines 221-235
Enhance(query, search_results) ==
    [i \in 1..Len(search_results) |->
        LET result == search_results[i]
            relevance == _analyze_match_relevance(query, result)
        IN  SearchResult(result.id, result.document, result.metadata,
                         result.distance, OneMinus(result.distance),
                         relevance.match_type, relevance.relevance_factors)]

\* The handler's local variables (it prints them) and its response.
search_flights(request, coll, ranking, fault) ==
    LET query == Text(request.query)
        complexity == analyze_query_complexity(query)
        strategy == determine_search_strategy(query, complexity)
        analysed == [request |-> request, complexity |-> complexity,
                     strategy |-> strategy]
    IN  IF fault = "count"
        THEN analysed @@ [response |-> HTTPException("store unavailable")]
        ELSE
        LET total_flights == StoreCount(coll)
            n_results == ChooseCount(request, complexity, total_flights)
            run == RunPath(strategy, request, query, n_results, ranking, fault)
            sized == analysed @@ [total_flights |-> total_flights,
                                  n_results |-> n_results,
                                  path |-> run.path,
                                  requested |-> run.requested]
        IN  IF run.out.t = "raise"
            THEN sized @@ [response |-> HTTPException(run.out.e)]
            ELSE sized @@ [response |-> Ok(Enhance(query, run.out.v))]

(***************************************************************************)
(* Direct calls of _hybrid_search, _exact_search and _similarity_search: a *)
(* result count of 0 to MaxCount and the documents of a small store,       *)
(* ranked by the store in any order.                                       *)
(***************************************************************************)
PathDocs ==
    { [id |-> "A", document |-> Text(<<"cheap", "flights", "miami">>),
       metadata |-> <<>>],
      [id |-> "B", document |-> Text(<<"Flight", "AA123", "by", "Delta">>),
       metadata |-> [airline |-> Str("Delta")]],
      [id |-> "C", document |-> Text(<<"Delta", "miami">>),
       metadata |-> [airline |-> Str("United")]],
      [id |-> "D", document |-> Text(<<>>), metadata |-> <<>>] }

InitHybridPath ==
    /\ StoreIdle
    /\ \E coll \in SUBSET PathDocs :
          \/ call \in [fn : {"_hybrid_search"},
                       query : {<<"cheap", "Delta">>, <<"miami">>},
                       n_results : 0..MaxCount,
                       ranking : Rankings(coll, StartupMetadata)]
          \/ call \in [fn : {"_exact_search"},
                       query : {<<"AA123">>},
                       n_results : 0..MaxCount,
                       ranking : Rankings(coll, StartupMetadata)]
          \/ call \in [fn : {"_similarity_search"},
                       query : {<<"miami">>},
                       n_results : 0..MaxCount,
                       max_distance : {None, Num(5)},
                       ranking : Rankings(coll, StartupMetadata)]
    /\ ret = None

HybridPath ==
    /\ call.fn = "_hybrid_search"
    /\ ret = None
    /\ ret' = RunPath(HYBRID, SearchQuery(call.query, Num(call.n_results), None, None),
                      Text(call.query), call.n_results, call.ranking, "none")
    /\ UNCHANGED <<call, storeVars>>

ExactPath ==
    /\ call.fn = "_exact_search"
    /\ ret = None
    /\ ret' = RunPath(EXACT, SearchQuery(call.query, Num(call.n_results), None, None),
                      Text(call.query), call.n_results, call.ranking, "none")
    /\ UNCHANGED <<call, storeVars>>

SimilarityPath ==
    /\ call.fn = "_similarity_search"
    /\ ret = None
    /\ ret' = RunPath(SIMILARITY,
                      SearchQuery(call.query, Num(call.n_results), None,
                                  call.max_distance),
                      Text(call.query), call.n_results, call.ranking, "none")
    /\ UNCHANGED <<call, storeVars>>

NextHybridPath ==
    \/ HybridPath
    \/ ExactPath
    \/ SimilarityPath

SpecHybridPath == InitHybridPath /\ [][NextHybridPath]_vars

\* _hybrid_search has returned a list.
HybridReturned == call.fn = "_hybrid_search" /\ ret # None /\ ret.out.t = "return"

\* The candidates the store gives for the count requested.
Fetched == SubSeq(call.ranking, 1,
                  IF ret.requested < Len(call.ranking) THEN ret.requested
                  ELSE Len(call.ranking))

\* The hybrid score of the i-th fetched candidate.
FetchedScore(i) ==
    _calculate_hybrid_score(Text(call.query),
        SearchResult(Fetched[i].doc.id, Fetched[i].doc.document,
                     Fetched[i].doc.metadata, Fetched[i].distance,
                     Rat(10 - Fetched[i].distance, 10), "hybrid", <<>>))

ReturnedIds == {ret.out.v[i].id : i \in 1..Len(ret.out.v)}

\* C20: the hybrid path requests min(3n, 30) candidates and returns at most
\* n of them in non-increasing order of hybrid score, none of them scoring
\* below a fetched candidate that was left out.
C20_HybridTopN ==
    HybridReturned =>
        /\ ret.requested = (IF 3 * call.n_results < 30 THEN 3 * call.n_results ELSE 30)
        /\ Len(ret.out.v) <= call.n_results
        /\ ReturnedIds \subseteq {Fetched[i].doc.id : i \in 1..Len(Fetched)}
        /\ \A i \in 1..Len(ret.out.v) : \A j \in 1..Len(ret.out.v) :
              i < j => RatLeq(ret.out.v[j].similarity_score,
                              ret.out.v[i].similarity_score)
        /\ \A i \in 1..Len(Fetched) :
              Fetched[i].doc.id \notin ReturnedIds =>
                  \A j \in 1..Len(ret.out.v) :
                      RatLeq(FetchedScore(i), ret.out.v[j].similarity_score)

\* With n = 1 and four documents, three candidates were fetched and the one
\* returned is not the nearest of them.
C20_Witness ==
    /\ HybridReturned
    /\ call.n_results = 1
    /\ Len(call.ranking) = 4
    /\ Len(Fetched) = 3
    /\ Len(ret.out.v) = 1
    /\ ret.out.v[1].id # call.ranking[1].doc.id

(***************************************************************************)
(* rag-service: POST /search                                               *)
(***************************************************************************)
\* FlightSearchRequest: max_results is 5 when the caller leaves it out.
FlightSearchRequest(query, max_results, numerical_filters) ==
    [query |-> query, max_results |-> max_results,
     numerical_filters |-> numerical_filters]

\* the payload with n_results always set from max_results
search_payload_always_counted(request) ==
    SearchQuery(request.query, Num(request.max_results), None, None)

\* lines 203-205: n_results is sent only for a positive max_results
search_payload(request) ==
    SearchQuery(request.query,
                IF request.max_results > 0 THEN Num(request.max_results) ELSE None,
                None, None)

\* lines 219-229
FlightData(search_results) ==
    [i \in 1..Len(search_results) |->
        search_results[i].metadata @@
            [search_metadata |->
                [similarity_score |-> search_results[i].similarity_score,
                 match_type |-> search_results[i].match_type,
                 relevance_factors |-> search_results[i].relevance_factors,
                 distance |-> search_results[i].distance]]]

FlightSearchResponse(flights, total_found) ==
    [status |-> 200, flights |-> flights, total_found |-> total_found]

\* `vdb` is what the vector-db made of the payload, None when the HTTP call
\* did not reach it.
search_flights_direct(request, vdb) ==
    IF vdb = None THEN HTTPException("connect error")
    ELSE IF vdb.response.status # 200 THEN HTTPException("status error")
    ELSE LET flights == FlightData(vdb.response.results)
         IN  IF request.numerical_filters # None
             THEN LET filtered == apply_numerical_filters(flights,
                                                          request.numerical_filters)
                  IN  IF filtered.t = "raise" THEN HTTPException(filtered.e)
                      ELSE FlightSearchResponse(filtered.v, Len(flights))
             ELSE FlightSearchResponse(flights, Len(flights))

\* FlightSearchRequest.max_results when the caller gives none (line 29)
DefaultMaxResults == 5

(***************************************************************************)
(* The services at work: clients add flights, reset the database and       *)
(* search, either at the vector-db or through the rag-service.  A handler  *)
(* runs to its end without suspending (the store calls are synchronous),   *)
(* so each request is one step; `search` and `rag` hold the request being  *)
(* answered until its response is sent.                                    *)
(***************************************************************************)
MainQueries ==
    { <<"AA123">>,
      <<"miami">>,
      <<"cheap", "flights", "to", "miami", "under", "$300">>,
      <<"compare", "Delta", "vs", "united", "price">> }

\* The requests posted to /flights/search: every query with each result count
\* and distance threshold, and every query with each strategy.
SearchRequests ==
    [query : MainQueries,
     n_results : {None, Num(0), Num(1), Num(2)},
     strategy : {None},
     max_distance : {None, Num(5)}]
    \cup
    [query : MainQueries,
     n_results : {None},
     strategy : {Enum(EXACT), Enum(SIMILARITY), Enum(HYBRID)},
     max_distance : {None}]

NoFilters ==
    [max_price |-> None, min_price |-> None, max_duration_hours |-> None,
     min_available_seats |-> None, departure_after |-> None,
     departure_before |-> None, arrival_after |-> None, arrival_before |-> None]

RagRequests ==
    [query : MainQueries,
     max_results : {0, 1, 5},
     numerical_filters : {None, [NoFilters EXCEPT !.max_price = Num(300)]}]

\* The store call that fails during a request, if any; `call` keeps it while
\* the request is being answered.
Faults == {"none", "count", "query"}

\* The rankings a request may meet: a failed store call gives none.
RankingsUnder(fault) ==
    IF fault = "none" THEN Rankings(collection, collectionMeta) ELSE {<<>>}

Init ==
    /\ collection = {}
    /\ collectionMeta = StartupMetadata
    /\ search = None
    /\ rag = None
    /\ call = None
    /\ ret = None

Idle == search = None /\ rag = None

\* The collection after a search: search_flights and its paths call count()
\* and query() on it, which read, and assign no global.
collection_after_search_cleared(coll) == {}
collection_after_search(coll) == coll

\* POST /flights/add
AddFlight ==
    /\ Idle
    /\ \E flight \in FlightPool :
          /\ Cardinality(StoreAdd(collection, flight.id, document_text(flight),
                                  flight)) <= MaxDocs
          /\ collection' = StoreAdd(collection, flight.id, document_text(flight),
                                    flight)
    /\ UNCHANGED <<collectionMeta, search, rag, call, ret>>

\* DELETE /flights/reset
ResetDatabase ==
    /\ Idle
    /\ collection' = {}
    /\ collectionMeta' = ResetMetadata
    /\ UNCHANGED <<search, rag, call, ret>>

\* POST /flights/search at the vector-db
SearchFlights ==
    /\ Idle
    /\ \E request \in SearchRequests, fault \in Faults :
          \E ranking \in RankingsUnder(fault) :
              /\ search' = search_flights(request, collection, ranking, fault)
              /\ call' = [fn |-> "search_flights", fault |-> fault]
    /\ collection' = collection_after_search(collection)
    /\ UNCHANGED <<collectionMeta, rag, ret>>

\* POST /search at the rag-service, which posts to the vector-db
SearchFlightsDirect ==
    /\ Idle
    /\ \E request \in RagRequests, fault \in Faults \cup {"http"} :
          \E ranking \in RankingsUnder(fault) :
              LET vdb == IF fault = "http" THEN None
                         ELSE search_flights(search_payload(request), collection,
                                             ranking, fault)
              IN  /\ search' = vdb
                  /\ rag' = [request |-> request,
                             response |-> search_flights_direct(request, vdb)]
                  /\ call' = [fn |-> "search_flights_direct", fault |-> fault]
    /\ collection' = collection_after_search(collection)
    /\ UNCHANGED <<collectionMeta, ret>>

\* The response is sent; the request's data is gone.
Respond ==
    /\ ~Idle
    /\ search' = None
    /\ rag' = None
    /\ call' = None
    /\ UNCHANGED <<collection, collectionMeta, ret>>

Next ==
    \/ AddFlight
    \/ ResetDatabase
    \/ SearchFlights
    \/ SearchFlightsDirect
    \/ Respond

Spec == Init /\ [][Next]_vars

(***************************************************************************)
(* Properties of the search handlers                                       *)
(***************************************************************************)
\* The vector-db handler got as far as choosing n_results and a path.
Searched == search # None /\ "n_results" \in DOMAIN search

\* The count determine_result_count gives for the request being answered.
DynamicCount == determine_result_count(search.complexity, search.total_flights)

\* C5 as stated: when the caller supplies a result count (n_results at the
\* vector-db, max_results at the rag-service), the search runs its path with
\* n equal to that count; dynamic sizing is used only when none is supplied.
C5_SuppliedCountOverrides ==
    Searched =>
        /\ search.request.n_results # None
              => search.n_results = search.request.n_results.v
        /\ search.request.n_results = None /\ rag = None
              => search.n_results = DynamicCount
        /\ rag # None => search.n_results = rag.request.max_results

\* C5: a result count supplied to the vector-db is the n its path runs with,
\* and so is a positive max_results supplied to the rag-service; the count is
\* sized from complexity and count() when the vector-db receives no n_results,
\* which is also what a max_results <= 0 at the rag-service leads to.
C5_PositiveCountOverrides ==
    Searched =>
        /\ search.request.n_results # None
              => search.n_results = search.request.n_results.v
        /\ search.request.n_results = None
              => search.n_results = DynamicCount
        /\ rag # None =>
              IF rag.request.max_results > 0
              THEN /\ search.request.n_results = Num(rag.request.max_results)
                   /\ search.n_results = rag.request.max_results
              ELSE search.request.n_results = None

\* A supplied count that differs from the dynamic one was used, and the search
\* returned results.
C5_Witness ==
    /\ Searched
    /\ rag # None
    /\ rag.request.max_results > 0
    /\ search.n_results = rag.request.max_results
    /\ search.n_results # DynamicCount
    /\ search.response.status = 200
    /\ Len(search.response.results) > 0

\* The path that executes a strategy (lines 211-219).
PathOf(strategy) ==
    IF strategy = EXACT THEN "_exact_search"
    ELSE IF strategy = HYBRID THEN "_hybrid_search"
    ELSE "_similarity_search"

\* C6 as stated: when the request carries an explicit strategy, the search
\* executes that strategy's path instead of the analyzer's choice.
C6_ExplicitStrategyRuns ==
    Searched /\ search.request.strategy # None
        => search.path = PathOf(search.request.strategy.v)

\* The vector-db answered 200 with a result list.
Answered == Searched /\ search.response.status = 200

\* The ids of the results returned.
ResultIds == {search.response.results[i].id : i \in 1..Len(search.response.results)}

\* C12: a search on the exact path whose query is the flight_number of a
\* stored record returns that record among its results.
C12_FlightNumberRoundTrip ==
    (Answered /\ search.path = "_exact_search") =>
        \A d \in collection :
            d.metadata.flight_number.v = Text(search.request.query)
                => d.id \in ResultIds

\* The rag-service answered 200 with a flight list.
RagAnswered == rag # None /\ Searched /\ rag.response.status = 200

\* The scenario's request: "cheap flights to miami under $300" with
\* max_price = 300 and no max_results given, on a store whose count sizes a
\* MODERATE query as 50 documents do (50 // 25 clamped to [3, 8] is 3).
ScenarioRequested ==
    /\ RagAnswered
    /\ rag.request.query = <<"cheap", "flights", "to", "miami", "under", "$300">>
    /\ rag.request.numerical_filters = [NoFilters EXCEPT !.max_price = Num(300)]
    /\ rag.request.max_results = DefaultMaxResults
    /\ determine_result_count(MODERATE, search.total_flights)
          = determine_result_count(MODERATE, 50)

\* C13: in the scenario the complexity is MODERATE, the strategy SIMILARITY,
\* n is 3, and the caller gets at most 3 flights, each with price <= 300.
C13_EndToEndScenario ==
    ScenarioRequested =>
        /\ search.complexity = MODERATE
        /\ search.strategy = SIMILARITY
        /\ search.n_results = 3
        /\ Len(rag.response.flights) <= 3
        /\ \A i \in 1..Len(rag.response.flights) :
              rag.response.flights[i].price.v <= 300

\* No store call failed in the request being answered.
StoreWorked == call # None /\ call.fault = "none"

StoreFailed == call # None /\ call.fault \in {"count", "query"}

\* C15: when a store call fails, the search ends in a failure that carries
\* the store's message and no results, at the vector-db and at the
\* rag-service, and differs from a success with zero results.
C15_StoreFailureCarriesMessage ==
    StoreFailed =>
        /\ search.response.status = 500
        /\ "results" \notin DOMAIN search.response
        /\ search.response.detail = "store unavailable"
        /\ rag # None =>
              /\ rag.response.status = 500
              /\ "flights" \notin DOMAIN rag.response
              /\ rag.response.detail = "store unavailable"

ThresholdSearched ==
    /\ Searched
    /\ StoreWorked
    /\ search.path = "_similarity_search"
    /\ search.request.max_distance # None

\* C17: on the similarity path with a threshold, no returned result is
\* farther than the threshold, at most n results are returned, and a search
\* with n >= 1 answers 200 even when nothing is within the threshold.
C17_NoResultBeyondThreshold ==
    ThresholdSearched =>
        /\ search.n_results >= 1 => search.response.status = 200
        /\ search.response.status = 200 =>
              /\ Len(search.response.results) <= search.n_results
              /\ \A i \in 1..Len(search.response.results) :
                    search.response.results[i].distance
                        <= search.request.max_distance.v

\* Every candidate of a non-empty store was beyond the threshold: the search
\* returned an empty list.
C17_Witness ==
    /\ ThresholdSearched
    /\ collection # {}
    /\ search.n_results >= 1
    /\ search.response.status = 200
    /\ search.response.results = <<>>

\* C18: every result a search returns, on each path, has similarity_score
\* equal to 1 - distance.
C18_ScoreIsOneMinusDistance ==
    Answered =>
        \A i \in 1..Len(search.response.results) :
            RatEq(search.response.results[i].similarity_score,
                  Rat(10 - search.response.results[i].distance, 10))

\* The hybrid path returned a result whose hybrid score is not 1 - distance.
C18_Witness ==
    /\ Answered
    /\ search.path = "_hybrid_search"
    /\ Len(search.response.results) > 0
    /\ ~RatEq(_calculate_hybrid_score(Text(search.request.query),
                                      search.response.results[1]),
              Rat(10 - search.response.results[1].distance, 10))
    /\ RatEq(search.response.results[1].similarity_score,
             Rat(10 - search.response.results[1].distance, 10))

\* C19: every stored record has an id of its own, a price >= 0 and
\* available_seats >= 0.
C19_StoredRecordsValid ==
    /\ \A d, e \in collection : d.id = e.id => d = e
    /\ \A d \in collection :
          /\ d.metadata.price.v >= 0
          /\ d.metadata.available_seats.v >= 0

(***************************************************************************)
(* Properties of the exact path and of the paths' result counts            *)
(***************************************************************************)
\* _exact_search has returned a list.
ExactReturned == call.fn = "_exact_search" /\ ret # None /\ ret.out.t = "return"

C22_ExactStrategyTaggedExact ==
    (Answered /\ search.strategy = EXACT) =>
        \A i \in 1..Len(search.response.results) :
            search.response.results[i].match_type = "exact"

\* The place of a relevance factor in the fixed order: airline, origin,
\* destination, budget, semantic similarity (0 for anything else).
FactorKind(f) ==
    IF StartsAt(f, Chars["Airline match: "], 1) THEN 1
    ELSE IF StartsAt(f, Chars["Origin match: "], 1) THEN 2
    ELSE IF StartsAt(f, Chars["Destination match: "], 1) THEN 3
    ELSE IF StartsAt(f, Chars["Budget-friendly: $"], 1) THEN 4
    ELSE IF f \in {Chars["High semantic similarity"], Chars["Good semantic match"]}
    THEN 5
    ELSE 0

\* C23: a returned result is "multi-factor" with more than 2 factors, else
\* "exact" with a field-match factor, else "semantic"; its factors come in
\* the order airline, origin, destination, budget, semantic, each once.
C23_MatchTypeFromFactors ==
    Answered =>
        \A i \in 1..Len(search.response.results) :
            LET r == search.response.results[i]
                factors == r.relevance_factors
            IN  /\ \A k \in 1..Len(factors) : FactorKind(factors[k]) \in 1..5
                /\ \A k \in 1..(Len(factors) - 1) :
                      FactorKind(factors[k]) < FactorKind(factors[k + 1])
                /\ r.match_type =
                      (IF Len(factors) > 2 THEN "multi-factor"
                       ELSE IF \E k \in 1..Len(factors) : FactorKind(factors[k]) \in 1..3
                       THEN "exact"
                       ELSE "semantic")

\* A result with exactly two factors, one of them a field match, is "exact".
C23_Witness ==
    /\ Answered
    /\ \E i \in 1..Len(search.response.results) :
          /\ Len(search.response.results[i].relevance_factors) = 2
          /\ FactorKind(search.response.results[i].relevance_factors[1]) \in 1..3
          /\ search.response.results[i].match_type = "exact"

\* C24: a returned result lists "High semantic similarity" exactly when its
\* returned similarity_score is above 0.8, and "Good semantic match" exactly
\* when it is above 0.6 and at most 0.8.
C24_SemanticFactorFromReturnedScore ==
    Answered =>
        \A i \in 1..Len(search.response.results) :
            LET r == search.response.results[i]
                listed(f) == \E k \in 1..Len(r.relevance_factors) :
                                 r.relevance_factors[k] = Chars[f]
            IN  /\ listed("High semantic similarity")
                      <=> RatLess(Rat(8, 10), r.similarity_score)
                /\ listed("Good semantic match")
                      <=> (/\ RatLess(Rat(6, 10), r.similarity_score)
                           /\ RatLeq(r.similarity_score, Rat(8, 10)))

(***************************************************************************)
(* Direct calls of calculate_flight_duration and passes_time_filter on     *)
(* time strings in the formats the service meets, a string that is no      *)
(* time, an hour beyond 23, and None.                                      *)
(***************************************************************************)
TimeStrings ==
    {Str("08:00"), Str("12:00"), Str("14:30"), Str("14:30:00"), Str("18:00"),
     Str("23:00"), Str("01:15"), Str("2:30 PM"), Str("12:30 AM"), Str("11:15 PM"),
     Str("12:00 PM"), Str("25:00"), Str("soon")}

InitTime ==
    /\ StoreIdle
    /\ \/ call \in [fn : {"calculate_flight_duration"},
                    departure_time : TimeStrings \cup {None},
                    arrival_time : TimeStrings \cup {None}]
       \/ call \in [fn : {"passes_time_filter"},
                    flight_time : TimeStrings,
                    after_time : TimeStrings \cup {None},
                    before_time : TimeStrings \cup {None}]
    /\ ret = None

FlightDuration ==
    /\ call.fn = "calculate_flight_duration"
    /\ ret = None
    /\ ret' = [duration |-> calculate_flight_duration(call.departure_time,
                                                      call.arrival_time),
               blocked |-> duration_filtering(
                   Flight(Num(300), Num(5), call.departure_time, call.arrival_time),
                   [NoFilters EXCEPT !.max_duration_hours = Num(2)])]
    /\ UNCHANGED <<call, storeVars>>

TimeWindow ==
    /\ call.fn = "passes_time_filter"
    /\ ret = None
    /\ ret' = [passes |-> passes_time_filter(call.flight_time, call.after_time,
                                             call.before_time)]
    /\ UNCHANGED <<call, storeVars>>

NextTime ==
    \/ FlightDuration
    \/ TimeWindow

SpecTime == InitTime /\ [][NextTime]_vars

(***************************************************************************)
(* Properties of the time functions called directly                        *)
(***************************************************************************)
Accepted(time) == IsStr(time) /\ parse_time_string(time).v # None

MinutesOf(time) == Minutes(parse_time_string(time).v)

DurationComputed == call.fn = "calculate_flight_duration" /\ ret # None

\* C25: for departure and arrival strings that parse_time_string accepts,
\* calculate_flight_duration returns ((arrival_minutes - departure_minutes)
\* mod 1440) / 60 hours; when either cannot be parsed it returns no duration
\* and the max_duration_hours filter does not exclude the record.
C25_DurationModuloDay ==
    DurationComputed =>
        IF Accepted(call.departure_time) /\ Accepted(call.arrival_time)
        THEN ret.duration = Num((MinutesOf(call.arrival_time)
                                 - MinutesOf(call.departure_time)) % (24 * 60))
        ELSE ret.duration = None /\ ret.blocked = "pass"

\* Minutes since midnight of the clock times called with, read off the clock:
\* 2:30 PM is 14:30, 12:30 AM is 00:30, 11:15 PM is 23:15, 12:00 PM is noon.
ClockMinutes ==
       Str("08:00") :> 480 @@ Str("12:00") :> 720 @@ Str("14:30") :> 870
    @@ Str("14:30:00") :> 870 @@ Str("18:00") :> 1080 @@ Str("23:00") :> 1380
    @@ Str("01:15") :> 75 @@ Str("2:30 PM") :> 870 @@ Str("12:30 AM") :> 30
    @@ Str("11:15 PM") :> 1395 @@ Str("12:00 PM") :> 720 @@ Str("25:00") :> 1500

WindowChecked == call.fn = "passes_time_filter" /\ ret # None

\* C26: for a record whose time is t minutes since midnight (24-hour HH:MM or
\* HH:MM:SS, or 12-hour with AM/PM, 12 AM being hour 0 and 1-11 PM being hours
\* 13-23), the time-window filter keeps the record exactly when after <= t
\* for a specified parsable after-bound and t <= before for a specified
\* parsable before-bound, both bounds inclusive.
C26_WindowInclusive ==
    (WindowChecked /\ call.flight_time \in DOMAIN ClockMinutes) =>
        (ret.passes <=>
            /\ call.after_time \in DOMAIN ClockMinutes
                   => ClockMinutes[call.after_time] <= ClockMinutes[call.flight_time]
            /\ call.before_time \in DOMAIN ClockMinutes
                   => ClockMinutes[call.flight_time] <= ClockMinutes[call.before_time])

\* a 12-hour afternoon time kept on both bounds of a window that is one minute
C26_Witness ==
    /\ WindowChecked
    /\ call.flight_time = Str("2:30 PM")
    /\ call.after_time = Str("14:30")
    /\ call.before_time = Str("14:30:00")
    /\ ret.passes

(***************************************************************************)
(* Properties of the collection's configuration and of concurrent requests *)
(***************************************************************************)
\* C27: after any sequence of add, search and reset operations the active
\* collection has the configuration it was created with at start-up (cosine
\* distance space and the HNSW parameters), so the distances a query returns
\* stay in the cosine range; a reset changes only the stored records.
C27_ConfigurationPreserved ==
    /\ collectionMeta = StartupMetadata
    /\ Space(collectionMeta) = "cosine"
    /\ \A d \in Distances(collectionMeta) : d <= MaxDistance

(***************************************************************************)
(* Properties of the field-match signals                                   *)
(***************************************************************************)
\* The result carries the field-match factor of the given kind.
HasFactor(result, kind) ==
    \E k \in 1..Len(result.relevance_factors) :
        FactorKind(result.relevance_factors[k]) = kind

\* The record has a non-empty value for the field, and it occurs in the query.
FieldInQuery(result, field, query) ==
    /\ field \in DOMAIN result.metadata
    /\ result.metadata[field].v # <<>>
    /\ Contains(Lower(query), Lower(result.metadata[field].v))

\* C30: a result gets the "Airline match", "Origin match" or "Destination
\* match" factor only when the record has a non-empty value for that field
\* which, lowercased, occurs in the lowercased query; a record whose field is
\* empty or missing never gets it.
C30_FieldMatchNeedsValue ==
    Answered =>
        \A i \in 1..Len(search.response.results) :
            /\ HasFactor(search.response.results[i], 1)
                  => FieldInQuery(search.response.results[i], "airline",
                                  Text(search.request.query))
            /\ HasFactor(search.response.results[i], 2)
                  => FieldInQuery(search.response.results[i], "departure_city",
                                  Text(search.request.query))
            /\ HasFactor(search.response.results[i], 3)
                  => FieldInQuery(search.response.results[i], "arrival_city",
                                  Text(search.request.query))

(***************************************************************************)
(* The vector-db's handlers on its one event loop (uvicorn.run, one         *)
(* process).  Requests arrive at any time and wait in `call`; the loop      *)
(* starts a waiting handler when no handler is running, or when the running *)
(* one is suspended at an await that yields.  search_flights is split at    *)
(* its await: the frame in `search` holds its locals after count(), and the *)
(* path's query() is a second step.                                         *)
(***************************************************************************)
LoopRequests ==
    [op : {"add"}, flight : {f \in FlightPool : f.price.v >= 300}]
        \cup {[op |-> "reset"]}

\* searches that leave the result count to the service
LoopQueries == [query : {<<"miami">>, <<"compare", "Delta", "vs", "united", "price">>},
                n_results : {None}, strategy : {None}, max_distance : {None}]

InitLoop ==
    /\ collection = {}
    /\ collectionMeta = StartupMetadata
    /\ search = None
    /\ rag = None
    /\ call = {}
    /\ ret = None

\* await with a position that gives the loop to other handlers
Yields_at_await(pc) == pc = "await"

\* Whether the handler at position pc has given the loop away.  The awaits of
\* lines 213-219 call coroutines of this module that contain no await of
\* their own (collection.query is a synchronous call), so they run inline.
Yields(pc) == FALSE

LoopFree == IF search = None THEN TRUE ELSE Yields(search.pc)

\* A client's request reaches the server.
Arrive ==
    /\ \E r \in LoopRequests \ call : call' = call \cup {r}
    /\ UNCHANGED <<collection, collectionMeta, search, rag, ret>>

add_flight ==
    /\ LoopFree
    /\ \E r \in call :
          /\ r.op = "add"
          /\ Cardinality(StoreAdd(collection, r.flight.id, document_text(r.flight),
                                  r.flight)) <= MaxDocs
          /\ collection' = StoreAdd(collection, r.flight.id,
                                    document_text(r.flight), r.flight)
          /\ call' = call \ {r}
    /\ UNCHANGED <<collectionMeta, search, rag, ret>>

reset_database ==
    /\ LoopFree
    /\ [op |-> "reset"] \in call
    /\ collection' = {}
    /\ collectionMeta' = ResetMetadata
    /\ call' = call \ {[op |-> "reset"]}
    /\ UNCHANGED <<search, rag, ret>>

\* search_flights, lines 185-209: up to the await
SizeFrame(request, complexity, coll) ==
    [pc |-> "await", request |-> request, complexity |-> complexity,
     total_flights |-> StoreCount(coll),
     n_results |-> ChooseCount(request, complexity, StoreCount(coll)),
     counted |-> coll]

CountFlights ==
    /\ search = None
    /\ \E request \in LoopQueries :
          search' = SizeFrame(request, analyze_query_complexity(Text(request.query)),
                              collection)
    /\ ret' = None
    /\ UNCHANGED <<collection, collectionMeta, rag, call>>

\* search_flights, lines 211-219: the path's collection.query
QueryFlights ==
    /\ search # None
    /\ \E ranking \in Rankings(collection, collectionMeta) :
          ret' = [total_flights |-> search.total_flights,
                  n_results |-> search.n_results,
                  counted |-> search.counted,
                  queried |-> collection,
                  waiting |-> {r.op : r \in call},
                  returned |-> Len(RunPath(determine_search_strategy(
                                      Text(search.request.query), search.complexity),
                                  search.request, Text(search.request.query),
                                  search.n_results, ranking, "none").out.v)]
    /\ search' = None
    /\ UNCHANGED <<collection, collectionMeta, rag, call>>

NextLoop ==
    \/ Arrive
    \/ add_flight
    \/ reset_database
    \/ CountFlights
    \/ QueryFlights

SpecLoop == InitLoop /\ [][NextLoop]_vars

WideRanking(size) ==
    [i \in 1..size |->
        [doc |-> [id |-> i, document |-> Text(<<"miami">>), metadata |-> <<>>],
         distance |-> 3]]

InitWide ==
    /\ StoreIdle
    /\ \E size \in 0..MaxWide :
          \/ call \in [fn : {"_hybrid_search", "_exact_search"},
                       query : {<<"miami">>},
                       n_results : 1..MaxWide,
                       ranking : {WideRanking(size)}]
          \/ call \in [fn : {"_similarity_search"},
                       query : {<<"miami">>},
                       n_results : 1..MaxWide,
                       max_distance : {None},
                       ranking : {WideRanking(size)}]
    /\ ret = None

SpecWide == InitWide /\ [][NextHybridPath]_vars

\* C29: for every result count n >= 1 and every store holding at least n
\* documents, a search on the exact path or on the hybrid path returns
\* exactly n results; on every path the number of returned results never
\* exceeds n.
C29_ExactlyNResults ==
    (ret # None /\ ret.out.t = "return") =>
        /\ Len(ret.out.v) <= call.n_results
        /\ (call.fn \in {"_exact_search", "_hybrid_search"}
            /\ Len(call.ranking) >= call.n_results)
               => Len(ret.out.v) = call.n_results
============================================================================
